---- MODULE Spec2Model ----
(***************************************************************************)
(* Model of the CAME platform adapters (came/climate.py, came/light.py):   *)
(* the climate entity's hvac_mode derivation and set_hvac_mode command,    *)
(* the light entity's construction, turn_on and brightness getter, and the *)
(* discovery listener (async_setup_entry / _setup_entities).               *)
(***************************************************************************)
EXTENDS Integers, Sequences, FiniteSets, TLC

VARIABLES
    device,          \* climate: the vendor thermo device (state, mode, season, dehumidifier_state)
    climate_op,      \* climate: the last operation on the device/entity and its argument
    climate_calls,   \* climate: the device calls issued by the last entity command
    light_device,    \* light: the vendor light device (capability flags, brightness, hs_color)
    light_entity,    \* light: the entity attributes fixed by __init__
    light_op,        \* light: the last entity command and its kwargs
    light_calls,     \* light: the device calls issued by the last entity command
    manager,         \* discovery: the device ids the manager resolves
    pending,         \* discovery: hass.data[DOMAIN][CONF_PENDING][platform]
    connected,       \* discovery: the dispatcher callback is registered
    calls,           \* discovery: one record per invocation of async_discover_sensor
    added            \* discovery: the argument of every async_add_entities call, in order

vars == <<device, climate_op, climate_calls, light_device, light_entity,
          light_op, light_calls, manager, pending, connected, calls, added>>

climate_vars == <<device, climate_op, climate_calls>>
light_vars == <<light_device, light_entity, light_op, light_calls>>
discovery_vars == <<manager, pending, connected, calls, added>>

\* A keyword argument that is not passed / a value that is None.
None == "None"

\* An empty kwargs dict.
NoKwargs == [k \in {} |-> 0]

(***************************************************************************)
(* climate.py                                                              *)
(***************************************************************************)

\* pycame.devices.came_thermo enumerations, by name.
THERMO_MODE_OFF == "THERMO_MODE_OFF"
THERMO_MODE_MANUAL == "THERMO_MODE_MANUAL"
THERMO_MODE_AUTO == "THERMO_MODE_AUTO"
THERMO_MODE_JOLLY == "THERMO_MODE_JOLLY"
THERMO_SEASON_OFF == "THERMO_SEASON_OFF"
THERMO_SEASON_WINTER == "THERMO_SEASON_WINTER"
THERMO_SEASON_SUMMER == "THERMO_SEASON_SUMMER"
THERMO_DEHUMIDIFIER_OFF == "THERMO_DEHUMIDIFIER_OFF"
THERMO_DEHUMIDIFIER_ON == "THERMO_DEHUMIDIFIER_ON"

ThermoModes == {THERMO_MODE_OFF, THERMO_MODE_MANUAL, THERMO_MODE_AUTO, THERMO_MODE_JOLLY}
ThermoSeasons == {THERMO_SEASON_OFF, THERMO_SEASON_WINTER, THERMO_SEASON_SUMMER}
ThermoDehumidifier == {THERMO_DEHUMIDIFIER_OFF, THERMO_DEHUMIDIFIER_ON}
\* device.state is tested for truthiness: 0 is off, 1 is on.
ThermoStates == {0, 1}

\* homeassistant HVACMode
HVAC_OFF == "off"
HVAC_HEAT == "heat"
HVAC_COOL == "cool"
HVAC_HEAT_COOL == "heat_cool"
HVAC_AUTO == "auto"
HVAC_DRY == "dry"
HVAC_FAN_ONLY == "fan_only"
HVACMode == {HVAC_OFF, HVAC_HEAT, HVAC_COOL, HVAC_HEAT_COOL, HVAC_AUTO, HVAC_DRY, HVAC_FAN_ONLY}

(***************************************************************************)
(* Each specification below exercises one component; the variables of the  *)
(* other components rest at these values.                                  *)
(***************************************************************************)
ClimateIdle ==
    /\ device = [state |-> 0, mode |-> THERMO_MODE_OFF, season |-> THERMO_SEASON_OFF,
                 dehumidifier_state |-> THERMO_DEHUMIDIFIER_OFF]
    /\ climate_op = [name |-> "init", arg |-> None]
    /\ climate_calls = <<>>

LightIdle ==
    /\ light_device = [support_brightness |-> FALSE, support_color |-> FALSE,
                       brightness |-> 0, hs_color |-> <<0, 0>>]
    /\ light_entity = [supported_color_modes |-> {}, color_mode |-> None]
    /\ light_op = [name |-> "init", kwargs |-> NoKwargs]
    /\ light_calls = <<>>

DiscoveryIdle ==
    /\ manager = {}
    /\ pending = <<>>
    /\ connected = FALSE
    /\ calls = <<>>
    /\ added = <<>>

\* CAME_MODE_TO_HA without the JOLLY entry.
CAME_MODE_TO_HA_NoJolly ==
    (THERMO_MODE_OFF :> HVAC_OFF) @@ (THERMO_MODE_AUTO :> HVAC_AUTO)

CAME_MODE_TO_HA ==
    (THERMO_MODE_OFF :> HVAC_OFF) @@ (THERMO_MODE_AUTO :> HVAC_AUTO)
        @@ (THERMO_MODE_JOLLY :> HVAC_AUTO)

\* CAME_SEASON_TO_HA with WINTER and SUMMER exchanged.
CAME_SEASON_TO_HA_Swapped ==
    (THERMO_SEASON_OFF :> HVAC_OFF) @@ (THERMO_SEASON_WINTER :> HVAC_COOL)
        @@ (THERMO_SEASON_SUMMER :> HVAC_HEAT)

CAME_SEASON_TO_HA ==
    (THERMO_SEASON_OFF :> HVAC_OFF) @@ (THERMO_SEASON_WINTER :> HVAC_HEAT)
        @@ (THERMO_SEASON_SUMMER :> HVAC_COOL)

\* hvac_mode without the leading "device is off" test.
hvac_mode_NoStateCheck ==
    IF device.mode \in DOMAIN CAME_MODE_TO_HA
    THEN CAME_MODE_TO_HA[device.mode]
    ELSE IF device.dehumidifier_state = THERMO_DEHUMIDIFIER_ON
         THEN HVAC_DRY
         ELSE CAME_SEASON_TO_HA[device.season]

\* The hvac_mode property of CameClimateEntity.
hvac_mode ==
    IF device.state = 0
    THEN HVAC_OFF
    ELSE IF device.mode \in DOMAIN CAME_MODE_TO_HA
         THEN CAME_MODE_TO_HA[device.mode]
         ELSE IF device.dehumidifier_state = THERMO_DEHUMIDIFIER_ON
              THEN HVAC_DRY
              ELSE CAME_SEASON_TO_HA[device.season]

\* A call device.zone_config(mode=m, season=s); s = None when not passed.
ZoneConfigCall(m, s) == [op |-> "zone_config", mode |-> m, season |-> s]

\* set_hvac_mode whose HEAT branch forgets the season argument.
set_hvac_mode_HeatNoSeason(mode) ==
    IF mode = HVAC_OFF
    THEN <<ZoneConfigCall(THERMO_MODE_OFF, None)>>
    ELSE IF mode = HVAC_HEAT
         THEN <<ZoneConfigCall(THERMO_MODE_MANUAL, None)>>
         ELSE IF mode = HVAC_COOL
              THEN <<ZoneConfigCall(THERMO_MODE_MANUAL, THERMO_SEASON_SUMMER)>>
              ELSE <<ZoneConfigCall(THERMO_MODE_AUTO, None)>>

\* set_hvac_mode without the final else branch: unlisted modes issue nothing.
set_hvac_mode_NoFallback(mode) ==
    IF mode = HVAC_OFF
    THEN <<ZoneConfigCall(THERMO_MODE_OFF, None)>>
    ELSE IF mode = HVAC_HEAT
         THEN <<ZoneConfigCall(THERMO_MODE_MANUAL, THERMO_SEASON_WINTER)>>
         ELSE IF mode = HVAC_COOL
              THEN <<ZoneConfigCall(THERMO_MODE_MANUAL, THERMO_SEASON_SUMMER)>>
              ELSE <<>>

\* The device calls CameClimateEntity.set_hvac_mode(mode) makes, in order.
set_hvac_mode(mode) ==
    IF mode = HVAC_OFF
    THEN <<ZoneConfigCall(THERMO_MODE_OFF, None)>>
    ELSE IF mode = HVAC_HEAT
         THEN <<ZoneConfigCall(THERMO_MODE_MANUAL, THERMO_SEASON_WINTER)>>
         ELSE IF mode = HVAC_COOL
              THEN <<ZoneConfigCall(THERMO_MODE_MANUAL, THERMO_SEASON_SUMMER)>>
              ELSE <<ZoneConfigCall(THERMO_MODE_AUTO, None)>>

\* The vendor device's zone_config: sets the mode, and the season when one is given.
zone_config(dev, call) ==
    [dev EXCEPT !.mode = call.mode,
                !.season = IF call.season = None THEN @ ELSE call.season]

RECURSIVE ApplyThermoCalls(_, _)
ApplyThermoCalls(dev, cs) ==
    IF cs = <<>> THEN dev
    ELSE ApplyThermoCalls(zone_config(dev, Head(cs)), Tail(cs))

ThermoDevices ==
    [state : ThermoStates, mode : ThermoModes, season : ThermoSeasons,
     dehumidifier_state : ThermoDehumidifier]

InitClimate ==
    /\ device \in ThermoDevices
    /\ climate_op = [name |-> "init", arg |-> None]
    /\ climate_calls = <<>>
    /\ LightIdle
    /\ DiscoveryIdle

\* The framework calls entity.set_hvac_mode(m).
SetHvacMode ==
    \E m \in HVACMode :
        /\ climate_calls' = set_hvac_mode(m)
        /\ device' = ApplyThermoCalls(device, set_hvac_mode(m))
        /\ climate_op' = [name |-> "set_hvac_mode", arg |-> m]
        /\ UNCHANGED <<light_vars, discovery_vars>>

\* The vendor library refreshes the device's attributes from the bus.
ThermoUpdate ==
    /\ device' \in ThermoDevices
    /\ device' # device
    /\ climate_op' = [name |-> "update", arg |-> None]
    /\ climate_calls' = <<>>
    /\ UNCHANGED <<light_vars, discovery_vars>>

NextClimate == SetHvacMode \/ ThermoUpdate

SpecClimate == InitClimate /\ [][NextClimate]_vars

(***************************************************************************)
(* Properties of the climate entity                                        *)
(***************************************************************************)

\* C1: whenever the device state is off, hvac_mode is OFF, whatever the
\* mode, season and dehumidifier state are.
C1_OffHasPriority ==
    device.state = 0 => hvac_mode = HVAC_OFF

C1_Witness ==
    /\ device.state = 0
    /\ device.mode = THERMO_MODE_MANUAL
    /\ device.season = THERMO_SEASON_WINTER
    /\ device.dehumidifier_state = THERMO_DEHUMIDIFIER_ON
    /\ hvac_mode = HVAC_OFF

\* C2: when the device is on and its mode is AUTO or JOLLY, hvac_mode is
\* AUTO for every season and dehumidifier state (never DRY).
C2_AutoJollyIsAuto ==
    (device.state # 0 /\ device.mode \in {THERMO_MODE_AUTO, THERMO_MODE_JOLLY})
        => hvac_mode = HVAC_AUTO

C2_Witness ==
    /\ device.state = 1
    /\ device.mode = THERMO_MODE_JOLLY
    /\ device.dehumidifier_state = THERMO_DEHUMIDIFIER_ON
    /\ hvac_mode = HVAC_AUTO

\* C3: when the device is on and its mode is MANUAL, hvac_mode is DRY if the
\* dehumidifier is ON, and otherwise HEAT in WINTER, COOL in SUMMER and OFF
\* when the season is OFF.
C3_ManualBySeasonOrDry ==
    (device.state # 0 /\ device.mode = THERMO_MODE_MANUAL) =>
        IF device.dehumidifier_state = THERMO_DEHUMIDIFIER_ON
        THEN hvac_mode = HVAC_DRY
        ELSE /\ device.season = THERMO_SEASON_WINTER => hvac_mode = HVAC_HEAT
             /\ device.season = THERMO_SEASON_SUMMER => hvac_mode = HVAC_COOL
             /\ device.season = THERMO_SEASON_OFF => hvac_mode = HVAC_OFF

C3_Witness ==
    /\ device.state = 1
    /\ device.mode = THERMO_MODE_MANUAL
    /\ device.dehumidifier_state = THERMO_DEHUMIDIFIER_OFF
    /\ device.season = THERMO_SEASON_SUMMER
    /\ hvac_mode = HVAC_COOL

\* What the claim expects set_hvac_mode(m) to send.
C4_Expected(m) ==
    CASE m = HVAC_OFF -> [op |-> "zone_config", mode |-> THERMO_MODE_OFF, season |-> None]
      [] m = HVAC_HEAT -> [op |-> "zone_config", mode |-> THERMO_MODE_MANUAL,
                           season |-> THERMO_SEASON_WINTER]
      [] m = HVAC_COOL -> [op |-> "zone_config", mode |-> THERMO_MODE_MANUAL,
                           season |-> THERMO_SEASON_SUMMER]
      [] OTHER -> [op |-> "zone_config", mode |-> THERMO_MODE_AUTO, season |-> None]

\* C4: every set_hvac_mode call issues exactly one zone_config: OFF -> mode
\* OFF without season, HEAT -> MANUAL/WINTER, COOL -> MANUAL/SUMMER, any
\* other mode (DRY and AUTO included) -> AUTO without season; the call
\* leaves the dehumidifier as it was.
C4_OneZoneConfigPerRequest ==
    [][climate_op'.name = "set_hvac_mode" =>
        /\ Len(climate_calls') = 1
        /\ climate_calls'[1] = C4_Expected(climate_op'.arg)
        /\ device'.dehumidifier_state = device.dehumidifier_state]_vars

C4_Witness ==
    /\ climate_op = [name |-> "set_hvac_mode", arg |-> HVAC_DRY]
    /\ climate_calls = <<[op |-> "zone_config", mode |-> THERMO_MODE_AUTO, season |-> None]>>
    /\ device.mode = THERMO_MODE_AUTO
    /\ device.dehumidifier_state = THERMO_DEHUMIDIFIER_OFF

\* C10: on a device that is on with the dehumidifier not ON, right after
\* set_hvac_mode(m) the hvac_mode property reads m, for m among OFF, AUTO,
\* HEAT and COOL and from any earlier mode and season.
C10_CommandReadBack ==
    (/\ climate_op.name = "set_hvac_mode"
     /\ climate_op.arg \in {HVAC_OFF, HVAC_AUTO, HVAC_HEAT, HVAC_COOL}
     /\ device.state # 0
     /\ device.dehumidifier_state # THERMO_DEHUMIDIFIER_ON)
        => hvac_mode = climate_op.arg

C10_Witness ==
    /\ climate_op = [name |-> "set_hvac_mode", arg |-> HVAC_HEAT]
    /\ device.state = 1
    /\ device.dehumidifier_state = THERMO_DEHUMIDIFIER_OFF
    /\ device.season = THERMO_SEASON_WINTER
    /\ hvac_mode = HVAC_HEAT

(***************************************************************************)
(* light.py                                                                *)
(***************************************************************************)

\* homeassistant ColorMode
COLOR_MODE_BRIGHTNESS == "brightness"
COLOR_MODE_HS == "hs"

\* The adapter's brightness scale is 0..255, the device's is 0..100.
HA_MAX_BRIGHTNESS == 255
DEVICE_MAX_BRIGHTNESS == 100

\* The hue/saturation pair a device starts with and the one a caller sets.
HS_INITIAL == <<0, 0>>
HsColors == {<<240, 100>>}

\* Truncating division in place of round().
round_Truncating(n, d) == n \div d

\* Python's round(n / d) for n >= 0, d > 0: nearest integer, ties to even.
round(n, d) ==
    LET q == n \div d
        r == n % d
    IN  IF 2 * r < d THEN q
        ELSE IF 2 * r > d THEN q + 1
        ELSE IF q % 2 = 0 THEN q ELSE q + 1

\* __init__ without the final "make sure there is a valid mode" step.
CameLightEntity_init_NoFallback(dev) ==
    LET modes1 == IF dev.support_brightness THEN {COLOR_MODE_BRIGHTNESS} ELSE {}
        modes2 == IF dev.support_color THEN modes1 \cup {COLOR_MODE_HS} ELSE modes1
        mode == IF dev.support_color THEN COLOR_MODE_HS ELSE COLOR_MODE_BRIGHTNESS
    IN  [supported_color_modes |-> modes2, color_mode |-> mode]

\* CameLightEntity.__init__: the colour-mode attributes of the new entity.
CameLightEntity_init(dev) ==
    LET modes1 == IF dev.support_brightness THEN {COLOR_MODE_BRIGHTNESS} ELSE {}
        modes2 == IF dev.support_color THEN modes1 \cup {COLOR_MODE_HS} ELSE modes1
        mode == IF dev.support_color THEN COLOR_MODE_HS ELSE COLOR_MODE_BRIGHTNESS
        modes3 == IF modes2 = {} THEN modes2 \cup {COLOR_MODE_BRIGHTNESS} ELSE modes2
    IN  [supported_color_modes |-> modes3, color_mode |-> mode]

\* homeassistant ATTR_BRIGHTNESS / ATTR_HS_COLOR, the keys of kwargs.
ATTR_BRIGHTNESS == "brightness"
ATTR_HS_COLOR == "hs_color"

\* A call on the light device, without and with an argument.
LightCall0(op) == [op |-> op]
LightCall(op, value) == [op |-> op, value |-> value]

\* turn_on that takes the plain branch when either parameter is missing.
turn_on_PlainIfEitherMissing(kwargs) ==
    IF ATTR_BRIGHTNESS \notin DOMAIN kwargs \/ ATTR_HS_COLOR \notin DOMAIN kwargs
    THEN <<LightCall0("turn_on")>>
    ELSE (IF ATTR_BRIGHTNESS \in DOMAIN kwargs
          THEN <<LightCall("set_brightness",
                           round(kwargs[ATTR_BRIGHTNESS] * 100, HA_MAX_BRIGHTNESS))>>
          ELSE <<>>)
         \o (IF ATTR_HS_COLOR \in DOMAIN kwargs
             THEN <<LightCall("set_hs_color", kwargs[ATTR_HS_COLOR])>>
             ELSE <<>>)

\* The device calls CameLightEntity.turn_on(**kwargs) makes, in order.
turn_on(kwargs) ==
    IF ATTR_BRIGHTNESS \notin DOMAIN kwargs /\ ATTR_HS_COLOR \notin DOMAIN kwargs
    THEN <<LightCall0("turn_on")>>
    ELSE (IF ATTR_BRIGHTNESS \in DOMAIN kwargs
          THEN <<LightCall("set_brightness",
                           round(kwargs[ATTR_BRIGHTNESS] * 100, HA_MAX_BRIGHTNESS))>>
          ELSE <<>>)
         \o (IF ATTR_HS_COLOR \in DOMAIN kwargs
             THEN <<LightCall("set_hs_color", kwargs[ATTR_HS_COLOR])>>
             ELSE <<>>)

\* The device calls CameLightEntity.turn_off() makes.
turn_off == <<LightCall0("turn_off")>>

\* The brightness property of CameLightEntity.
brightness ==
    IF ~light_device.support_brightness
    THEN None
    ELSE round(light_device.brightness * HA_MAX_BRIGHTNESS, DEVICE_MAX_BRIGHTNESS)

\* The hs_color property of CameLightEntity.
hs_color ==
    IF ~light_device.support_color
    THEN None
    ELSE light_device.hs_color

\* The color_mode property of CameLightEntity.
color_mode == light_entity.color_mode

\* The vendor light device: a supported attribute keeps the value last set.
light_apply(dev, call) ==
    CASE call.op = "set_brightness" /\ dev.support_brightness ->
            [dev EXCEPT !.brightness = call.value]
      [] call.op = "set_hs_color" /\ dev.support_color ->
            [dev EXCEPT !.hs_color = call.value]
      [] OTHER -> dev

RECURSIVE ApplyLightCalls(_, _)
ApplyLightCalls(dev, cs) ==
    IF cs = <<>> THEN dev
    ELSE ApplyLightCalls(light_apply(dev, Head(cs)), Tail(cs))

\* The kwargs a turn_on call can carry: any subset of the two keys.
TurnOnKwargs ==
    {NoKwargs}
        \cup {[brightness |-> b] : b \in 0..HA_MAX_BRIGHTNESS}
        \cup {[hs_color |-> h] : h \in HsColors}
        \cup {[brightness |-> b, hs_color |-> h] : b \in 0..HA_MAX_BRIGHTNESS, h \in HsColors}

\* The devices an entity is constructed on: every capability combination,
\* at either end of the brightness scale.
LightDevices ==
    [support_brightness : BOOLEAN, support_color : BOOLEAN,
     brightness : {0, DEVICE_MAX_BRIGHTNESS}, hs_color : {HS_INITIAL}]

InitLight ==
    /\ light_device \in LightDevices
    /\ light_entity = CameLightEntity_init(light_device)
    /\ light_op = [name |-> "init", kwargs |-> NoKwargs]
    /\ light_calls = <<>>
    /\ ClimateIdle
    /\ DiscoveryIdle

\* The framework calls entity.turn_on(**kwargs).
TurnOn ==
    \E kwargs \in TurnOnKwargs :
        /\ light_calls' = turn_on(kwargs)
        /\ light_device' = ApplyLightCalls(light_device, turn_on(kwargs))
        /\ light_op' = [name |-> "turn_on", kwargs |-> kwargs]
        /\ UNCHANGED <<light_entity, climate_vars, discovery_vars>>

\* The framework calls entity.turn_off().
TurnOff ==
    /\ light_calls' = turn_off
    /\ light_device' = ApplyLightCalls(light_device, turn_off)
    /\ light_op' = [name |-> "turn_off", kwargs |-> NoKwargs]
    /\ UNCHANGED <<light_entity, climate_vars, discovery_vars>>

NextLight == TurnOn \/ TurnOff

SpecLight == InitLight /\ [][NextLight]_vars

(***************************************************************************)
(* Properties of the light entity                                          *)
(***************************************************************************)

Abs(x) == IF x < 0 THEN -x ELSE x

\* C5: on a light that supports brightness, after turn_on(brightness=B) the
\* device holds the integer nearest to B*100/255, the brightness property
\* reads the integer nearest to that value times 255/100 (a tie going to the
\* even integer), and the value read differs from B by at most 1.
C5_BrightnessRoundTrip ==
    (/\ light_op.name = "turn_on"
     /\ ATTR_BRIGHTNESS \in DOMAIN light_op.kwargs
     /\ light_device.support_brightness)
        => LET B == light_op.kwargs[ATTR_BRIGHTNESS]
               d == light_device.brightness
               g == brightness
           IN  /\ 2 * Abs(255 * d - 100 * B) < 255
               /\ \/ 2 * Abs(100 * g - 255 * d) < 100
                  \/ (2 * Abs(100 * g - 255 * d) = 100 /\ g % 2 = 0)
               /\ Abs(g - B) <= 1

C5_Witness ==
    /\ light_op.name = "turn_on"
    /\ ATTR_BRIGHTNESS \in DOMAIN light_op.kwargs
    /\ light_op.kwargs[ATTR_BRIGHTNESS] = 26
    /\ light_device.support_brightness
    /\ light_device.brightness = 10
    /\ brightness = 26

\* C8: the supported colour-mode set of a constructed entity is never empty;
\* it holds BRIGHTNESS iff the device supports brightness or supports
\* neither capability, it holds HS iff the device supports colour, and the
\* active colour mode is HS iff the device supports colour, else BRIGHTNESS.
C8_ColorModes ==
    LET sb == light_device.support_brightness
        sc == light_device.support_color
    IN  /\ light_entity.supported_color_modes # {}
        /\ (COLOR_MODE_BRIGHTNESS \in light_entity.supported_color_modes)
              <=> (sb \/ (~sb /\ ~sc))
        /\ (COLOR_MODE_HS \in light_entity.supported_color_modes) <=> sc
        /\ (color_mode = COLOR_MODE_HS) <=> sc
        /\ ~sc => color_mode = COLOR_MODE_BRIGHTNESS

C8_Witness ==
    /\ ~light_device.support_brightness
    /\ ~light_device.support_color
    /\ light_entity.supported_color_modes = {COLOR_MODE_BRIGHTNESS}
    /\ color_mode = COLOR_MODE_BRIGHTNESS
    /\ light_op.name = "turn_on"

CallOps(cs) == [i \in 1..Len(cs) |-> cs[i].op]

\* C9: turn_on sends the plain turn_on command iff neither brightness nor
\* hs_color is supplied; otherwise it sends set_brightness iff brightness is
\* supplied and set_hs_color iff hs_color is supplied, brightness first, and
\* no plain turn_on.
C9_TurnOnCommands ==
    light_op.name = "turn_on" =>
        LET hasB == ATTR_BRIGHTNESS \in DOMAIN light_op.kwargs
            hasC == ATTR_HS_COLOR \in DOMAIN light_op.kwargs
            ops == CallOps(light_calls)
        IN  /\ (~hasB /\ ~hasC) <=> (\E i \in 1..Len(ops) : ops[i] = "turn_on")
            /\ (~hasB /\ ~hasC) => ops = <<"turn_on">>
            /\ (hasB /\ hasC) => ops = <<"set_brightness", "set_hs_color">>
            /\ (hasB /\ ~hasC) => ops = <<"set_brightness">>
            /\ (~hasB /\ hasC) => ops = <<"set_hs_color">>
            /\ hasC => light_calls[Len(light_calls)].value = light_op.kwargs[ATTR_HS_COLOR]

C9_Witness ==
    /\ light_op.name = "turn_on"
    /\ DOMAIN light_op.kwargs = {ATTR_BRIGHTNESS, ATTR_HS_COLOR}
    /\ light_op.kwargs[ATTR_BRIGHTNESS] = 128
    /\ light_op.kwargs[ATTR_HS_COLOR] = <<240, 100>>
    /\ light_calls = <<[op |-> "set_brightness", value |-> 50],
                       [op |-> "set_hs_color", value |-> <<240, 100>>]>>

(***************************************************************************)
(* Discovery listener (async_setup_entry / _setup_entities), the same code *)
(* in climate.py and light.py                                              *)
(***************************************************************************)

\* Device ids are 1..NumIds; a batch of ids has at most MaxBatch entries and
\* at most MaxSignals discovery signals follow the setup call.
NumIds == 2
MaxBatch == 1
MaxSignals == 1

Ids == 1..NumIds

Batches == UNION {[1..n -> Ids] : n \in 0..MaxBatch}

\* manager.get_device_by_id(dev_id): the device, or None (found = FALSE).
get_device_by_id(dev_id) == [found |-> dev_id \in manager, id |-> dev_id]

\* The adapter entity _setup_entities constructs on a device
\* (CameClimateEntity in climate.py, CameLightEntity in light.py).
Adapter(dev) == [device |-> dev.id]

\* One iteration of the loop that raises on an id that resolves to no device.
setup_entities_iteration_RaiseOnUnknown(call) ==
    LET dev_id == call.dev_ids[call.i]
        dev == get_device_by_id(dev_id)
    IN  IF ~dev.found
        THEN [call EXCEPT !.lookups = @ + 1, !.pc = "raised"]
        ELSE [call EXCEPT !.lookups = @ + 1, !.i = @ + 1,
                          !.entities = Append(@, Adapter(dev))]

\* One iteration of the loop of _setup_entities over dev_ids.
setup_entities_iteration(call) ==
    LET dev_id == call.dev_ids[call.i]
        dev == get_device_by_id(dev_id)
    IN  IF ~dev.found
        THEN [call EXCEPT !.lookups = @ + 1, !.i = @ + 1]
        ELSE [call EXCEPT !.lookups = @ + 1, !.i = @ + 1,
                          !.entities = Append(@, Adapter(dev))]

\* async_discover_sensor that submits the executor job for an empty batch too.
async_discover_sensor_NoEmptyCheck(dev_ids) ==
    [dev_ids |-> dev_ids, pc |-> "executor", i |-> 1, entities |-> <<>>,
     lookups |-> 0, adds |-> 0, batch |-> 0]

\* Entry of async_discover_sensor(dev_ids): return at once on an empty
\* batch, else submit _setup_entities to the executor.
async_discover_sensor(dev_ids) ==
    [dev_ids |-> dev_ids,
     pc |-> IF dev_ids = <<>> THEN "done" ELSE "executor",
     i |-> 1, entities |-> <<>>, lookups |-> 0, adds |-> 0, batch |-> 0]

InitDiscovery ==
    /\ manager \in SUBSET Ids
    /\ pending \in Batches
    /\ connected = FALSE
    /\ calls = <<>>
    /\ added = <<>>
    /\ ClimateIdle
    /\ LightIdle

\* async_setup_entry: connect the dispatcher callback, pop the pending ids
\* and run async_discover_sensor on them, up to its first await.
AsyncSetupEntry ==
    /\ ~connected
    /\ connected' = TRUE
    /\ pending' = <<>>
    /\ calls' = Append(calls, async_discover_sensor(pending))
    /\ UNCHANGED <<manager, added, climate_vars, light_vars>>

\* The dispatcher delivers a discovery signal carrying dev_ids.
DiscoverySignal ==
    /\ connected
    /\ Len(calls) < 1 + MaxSignals
    /\ \E dev_ids \in Batches :
          calls' = Append(calls, async_discover_sensor(dev_ids))
    /\ UNCHANGED <<manager, pending, connected, added, climate_vars, light_vars>>

\* The executor runs one iteration of _setup_entities for some call.
SetupEntitiesIteration ==
    \E c \in 1..Len(calls) :
        /\ calls[c].pc = "executor"
        /\ calls[c].i <= Len(calls[c].dev_ids)
        /\ calls' = [calls EXCEPT ![c] = setup_entities_iteration(calls[c])]
        /\ UNCHANGED <<manager, pending, connected, added, climate_vars, light_vars>>

\* _setup_entities returns and the coroutine resumes on the event loop.
SetupEntitiesReturn ==
    \E c \in 1..Len(calls) :
        /\ calls[c].pc = "executor"
        /\ calls[c].i > Len(calls[c].dev_ids)
        /\ calls' = [calls EXCEPT ![c].pc = "add"]
        /\ UNCHANGED <<manager, pending, connected, added, climate_vars, light_vars>>

\* The resumed coroutine calls async_add_entities(entities).
AddEntities ==
    \E c \in 1..Len(calls) :
        /\ calls[c].pc = "add"
        /\ added' = Append(added, calls[c].entities)
        /\ calls' = [calls EXCEPT ![c].pc = "done", ![c].adds = @ + 1,
                                  ![c].batch = Len(added) + 1]
        /\ UNCHANGED <<manager, pending, connected, climate_vars, light_vars>>

NextDiscovery ==
    \/ AsyncSetupEntry
    \/ DiscoverySignal
    \/ SetupEntitiesIteration
    \/ SetupEntitiesReturn
    \/ AddEntities

SpecDiscovery == InitDiscovery /\ [][NextDiscovery]_vars

(***************************************************************************)
(* Properties of the discovery listener                                    *)
(***************************************************************************)

\* How many entries of the id sequence s are id.
Occurrences(s, id) == Cardinality({k \in 1..Len(s) : s[k] = id})

\* How many adapters of the sequence es wrap device id.
AdaptersFor(es, id) == Cardinality({k \in 1..Len(es) : es[k].device = id})

RECURSIVE SumOver(_, _)
SumOver(f, n) == IF n = 0 THEN 0 ELSE f[n] + SumOver(f, n - 1)

C7_OneAdapterPerDeviceId ==
    \A id \in Ids :
        /\ SumOver([c \in 1..Len(calls) |-> AdaptersFor(calls[c].entities, id)],
                   Len(calls)) <= 1
        /\ SumOver([b \in 1..Len(added) |-> AdaptersFor(added[b], id)],
                   Len(added)) <= 1

====
